---- MODULE Spec2Model ----
(***************************************************************************)
(* Shuttling compiler of the trapped-ion QFT project.                      *)
(*                                                                         *)
(* Two pipelines are modelled on the same extracted gate sequence:         *)
(*   - compiler_v01.main (identical to kemal.main, plus the idle           *)
(*     post-process): batch_circuit, the assembly loop over the batched    *)
(*     columns, and the idle annotation of positions_history;              *)
(*   - compiler01.compile, called twice in one process, with its           *)
(*     module-level memoized shortest_path.                                *)
(* SpecShapes runs both on operations with unclassifiable or out-of-range  *)
(* operand fields; SpecCalls calls the routing functions on their own.     *)
(*                                                                         *)
(* A gate is the tuple <<name, angle, wire>> of qft.extract_gate_sequence; *)
(* the wire is <<q>> for a single-qubit gate (a Python int), <<a, b>> for  *)
(* a two-qubit gate (a Python tuple) and <<>> for an operand field that is *)
(* neither (the wire label 'a', a str).  A site is <<r, c>>; an idle       *)
(* node is <<r, c, "idle">>.  Python list objects whose identity matters   *)
(* (the snapshots held by positions_history) are modelled as references    *)
(* into a heap.                                                            *)
(***************************************************************************)
EXTENDS Integers, Sequences, FiniteSets, TLC

VARIABLES
    pc,                 \* position of the process in the run
    gate_seq,           \* seq built by qft.extract_gate_sequence
    batched_circuit,    \* compiler_v01: result of batch_circuit
    col,                \* compiler_v01: index of the next circuit_column of main's loop
    heap,               \* compiler_v01: the snapshot list objects, by reference
    current_ion_pos,    \* compiler_v01: reference held by current_ion_pos
    positions_history,  \* compiler_v01: list of references to snapshot objects
    gates_schedule,     \* compiler_v01: list of gate batches
    origin,             \* compiler_v01: for each timestep, the column that emitted it
    path_cache,         \* compiler_v01: lru_cache of shortest_path
    new_positions,      \* compiler_v01: positions_history after the idle post-process
    raised,             \* compiler_v01: the exception that ended main, or "none"
    call,               \* compiler01: number of the running compile() call
    batched,            \* compiler01: result of batch_circuit
    col01,              \* compiler01: index of the next col of compile's loop
    current,            \* compiler01: the running snapshot
    pos_hist,           \* compiler01: pos_hist of the running call
    gate_sched,         \* compiler01: gate_sched of the running call
    origin01,           \* compiler01: for each timestep, the col that emitted it
    path_cache01,       \* compiler01: lru_cache of shortest_path (the cached list objects)
    raised01,           \* compiler01: the exception that ended the running call, or "none"
    first_result,       \* compiler01: how the first compile() call ended
    called,             \* unit call: the name of the function called last, or "none"
    arguments,          \* unit call: the arguments it was called with
    outcome             \* unit call: what it returned, or the exception it raised

vars == <<pc, gate_seq, batched_circuit, col, heap, current_ion_pos,
          positions_history, gates_schedule, origin, path_cache, new_positions,
          raised, call, batched, col01, current, pos_hist, gate_sched, origin01,
          path_cache01, raised01, first_result, called, arguments, outcome>>

v01vars == <<batched_circuit, col, heap, current_ion_pos, positions_history,
             gates_schedule, origin, path_cache, new_positions, raised>>

c01vars == <<call, batched, col01, current, pos_hist, gate_sched, origin01,
             path_cache01, raised01, first_result>>

fnvars == <<called, arguments, outcome>>

-----------------------------------------------------------------------------
(* Bounds of the model *)

\* longest gate sequence extracted in Spec
MaxGates == 4

\* longest gate sequence extracted in SpecLong
MaxLongGates == 8

\* longest gate sequence extracted in SpecShapes
MaxShapedGates == 3

\* longest gate sequence extracted in SpecDrift
MaxDriftGates == 3

\* longest snapshot path handed to the gate schedule functions in SpecCalls
MaxPathLen == 3

-----------------------------------------------------------------------------
(* Program constants *)

num_ions == 8

rows == 5

cols == 7

threshold == 6

interaction_nodes == <<<<1, 1>>, <<1, 3>>, <<3, 1>>, <<3, 3>>, <<1, 5>>, <<3, 5>>>>

interaction_points == <<<<1, 1>>, <<1, 3>>, <<3, 1>>, <<3, 3>>, <<1, 5>>, <<3, 5>>>>

INTERACTION_POINTS == <<<<1, 1>>, <<1, 3>>, <<3, 1>>, <<3, 3>>, <<1, 5>>, <<3, 5>>>>

initial_ion_pos == <<<<0, 1>>, <<0, 3>>, <<0, 5>>, <<1, 6>>, <<3, 6>>, <<4, 1>>, <<4, 3>>, <<4, 5>>>>

init_positions == <<<<0, 1>>, <<0, 3>>, <<0, 5>>, <<1, 6>>, <<3, 6>>, <<4, 1>>, <<4, 3>>, <<4, 5>>>>

\* Python's qubit index q is position q + 1 of a snapshot
Ions == 0 .. (num_ions - 1)

-----------------------------------------------------------------------------
(* Generic helpers *)

Range(s) == {s[i] : i \in DOMAIN s}

Last(s) == s[Len(s)]

Max(a, b) == IF a >= b THEN a ELSE b

\* list * n for a one-element list
Repeat(x, n) == [i \in 1 .. n |-> x]

Reverse(s) == [i \in 1 .. Len(s) |-> s[Len(s) + 1 - i]]

RECURSIVE Flatten(_)
Flatten(ss) == IF ss = <<>> THEN <<>> ELSE Head(ss) \o Flatten(Tail(ss))

-----------------------------------------------------------------------------
(* The trap graph *)

GridNodes == {<<r, c>> : r \in 0 .. (rows - 1), c \in 0 .. (cols - 1)}

IdleNodes == {<<n[1], n[2], "idle">> : n \in GridNodes \ Range(interaction_nodes)}

TrapNodes == GridNodes \cup IdleNodes

\* neighbours of a grid node among the grid nodes (idle nodes are leaves)
GridNeighbors(n) ==
    {m \in GridNodes :
        \/ m[1] = n[1] /\ (m[2] = n[2] + 1 \/ n[2] = m[2] + 1)
        \/ m[2] = n[2] /\ (m[1] = n[1] + 1 \/ n[1] = m[1] + 1)}

\* breadth-first levels: the nodes at distance exactly k from the frontier's source
RECURSIVE BfsDist(_, _, _, _)
BfsDist(frontier, seen, dst, k) ==
    IF dst \in frontier THEN k
    ELSE LET next == (UNION {GridNeighbors(n) : n \in frontier}) \ seen
         IN  BfsDist(next, seen \cup next, dst, k + 1)

DistTable == [a \in GridNodes |-> [b \in GridNodes |-> BfsDist({a}, {a}, b, 0)]]

\* nx.shortest_path_length(trap_graph, a, b) for grid nodes
shortest_path_length(a, b) == DistTable[a][b]

\* every shortest path from a to b, endpoints included
RECURSIVE ShortestPaths(_, _)
ShortestPaths(a, b) ==
    IF a = b THEN {<<a>>}
    ELSE UNION {{<<a>> \o p : p \in ShortestPaths(n, b)} :
                    n \in {m \in GridNeighbors(a) :
                              DistTable[m][b] + 1 = DistTable[a][b]}}

-----------------------------------------------------------------------------
(* Gates *)

\* isinstance(gate[2], tuple)
is_two_qubit(gate) == Len(gate[3]) = 2

\* gate[2], the operand field: <<q>> is the int q, <<a, b>> the tuple (a, b)
\* and <<>> is the str 'a'
Wire(gate) == gate[3]

\* the qubit indices a gate references
Operands(gate) == Range(gate[3])

-----------------------------------------------------------------------------
(* BATCHING: compiler_v01.batch_circuit (same text in kemal.py) *)

\* BatchGate without used_qubits.add(gate[2])
BatchGate_NoAdd(st, gate) ==
    IF ~is_two_qubit(gate)
    THEN LET reuse == Wire(gate) \in st.used_qubits
         IN  [batched_circuit   |-> IF reuse
                                    THEN Append(st.batched_circuit, st.batched_circuit_t)
                                    ELSE st.batched_circuit,
              batched_circuit_t |-> Append(IF reuse THEN <<>> ELSE st.batched_circuit_t,
                                           gate),
              used_qubits       |-> IF reuse THEN {} ELSE st.used_qubits]
    ELSE [batched_circuit   |-> Append(IF st.batched_circuit_t # <<>>
                                       THEN Append(st.batched_circuit, st.batched_circuit_t)
                                       ELSE st.batched_circuit, <<gate>>),
          batched_circuit_t |-> <<>>,
          used_qubits       |-> {}]

\* BatchGate that does not close the pending group when a 2 qubit gate appears
BatchGate_DropPending(st, gate) ==
    IF ~is_two_qubit(gate)
    THEN LET reuse == Wire(gate) \in st.used_qubits
         IN  [batched_circuit   |-> IF reuse
                                    THEN Append(st.batched_circuit, st.batched_circuit_t)
                                    ELSE st.batched_circuit,
              batched_circuit_t |-> Append(IF reuse THEN <<>> ELSE st.batched_circuit_t,
                                           gate),
              used_qubits       |-> (IF reuse THEN {} ELSE st.used_qubits)
                                        \cup {Wire(gate)}]
    ELSE [batched_circuit   |-> Append(st.batched_circuit, <<gate>>),
          batched_circuit_t |-> <<>>,
          used_qubits       |-> {}]

\* BatchGate that puts a 2 qubit gate into the pending group
BatchGate_JoinPending(st, gate) ==
    IF ~is_two_qubit(gate)
    THEN LET reuse == Wire(gate) \in st.used_qubits
         IN  [batched_circuit   |-> IF reuse
                                    THEN Append(st.batched_circuit, st.batched_circuit_t)
                                    ELSE st.batched_circuit,
              batched_circuit_t |-> Append(IF reuse THEN <<>> ELSE st.batched_circuit_t,
                                           gate),
              used_qubits       |-> (IF reuse THEN {} ELSE st.used_qubits)
                                        \cup {Wire(gate)}]
    ELSE [batched_circuit   |-> Append(st.batched_circuit,
                                       Append(st.batched_circuit_t, gate)),
          batched_circuit_t |-> <<>>,
          used_qubits       |-> {}]

\* BatchGate that closes the pending group at every single qubit gate
BatchGate_EagerClose(st, gate) ==
    IF ~is_two_qubit(gate)
    THEN LET reuse == st.batched_circuit_t # <<>>
         IN  [batched_circuit   |-> IF reuse
                                    THEN Append(st.batched_circuit, st.batched_circuit_t)
                                    ELSE st.batched_circuit,
              batched_circuit_t |-> <<gate>>,
              used_qubits       |-> {Wire(gate)}]
    ELSE [batched_circuit   |-> Append(IF st.batched_circuit_t # <<>>
                                       THEN Append(st.batched_circuit, st.batched_circuit_t)
                                       ELSE st.batched_circuit, <<gate>>),
          batched_circuit_t |-> <<>>,
          used_qubits       |-> {}]

\* BatchGate that closes the pending group at a 2 qubit gate even when the
\* group is empty
BatchGate_CloseEmpty(st, gate) ==
    IF ~is_two_qubit(gate)
    THEN LET reuse == Wire(gate) \in st.used_qubits
         IN  [batched_circuit   |-> IF reuse
                                    THEN Append(st.batched_circuit, st.batched_circuit_t)
                                    ELSE st.batched_circuit,
              batched_circuit_t |-> Append(IF reuse THEN <<>> ELSE st.batched_circuit_t,
                                           gate),
              used_qubits       |-> (IF reuse THEN {} ELSE st.used_qubits)
                                        \cup {Wire(gate)}]
    ELSE [batched_circuit   |-> Append(Append(st.batched_circuit, st.batched_circuit_t),
                                       <<gate>>),
          batched_circuit_t |-> <<>>,
          used_qubits       |-> {}]

\* one iteration of `for gate in gate_seq`
BatchGate(st, gate) ==
    IF ~is_two_qubit(gate)
    THEN LET reuse == Wire(gate) \in st.used_qubits
             bc    == IF reuse THEN Append(st.batched_circuit, st.batched_circuit_t)
                               ELSE st.batched_circuit
             bt    == IF reuse THEN <<>> ELSE st.batched_circuit_t
             used  == IF reuse THEN {} ELSE st.used_qubits
         IN  [batched_circuit   |-> bc,
              batched_circuit_t |-> Append(bt, gate),
              used_qubits       |-> used \cup {Wire(gate)}]
    ELSE LET pending == st.batched_circuit_t # <<>>
             bc      == IF pending THEN Append(st.batched_circuit, st.batched_circuit_t)
                                   ELSE st.batched_circuit
             used    == IF pending THEN {} ELSE st.used_qubits
         IN  [batched_circuit   |-> Append(bc, <<gate>>),
              batched_circuit_t |-> <<>>,
              used_qubits       |-> used]

RECURSIVE BatchLoop(_, _, _)
BatchLoop(seq, i, st) ==
    IF i > Len(seq) THEN st ELSE BatchLoop(seq, i + 1, BatchGate(st, seq[i]))

BatchInit == [batched_circuit |-> <<>>, batched_circuit_t |-> <<>>, used_qubits |-> {}]

\* BatchLeftover merging into a last single-qubit batch without the
\* disjointness test
BatchLeftover_AlwaysMerge(bc, bt) ==
    IF bt = <<>> THEN bc
    ELSE IF /\ bc # <<>>
            /\ \A i \in DOMAIN Last(bc) : ~is_two_qubit(Last(bc)[i])
         THEN [bc EXCEPT ![Len(bc)] = Last(bc) \o bt]
         ELSE Append(bc, bt)

\* the leftover handling after the loop: merge into the last batch or append
BatchLeftover(bc, bt) ==
    IF bt = <<>> THEN bc
    ELSE IF /\ bc # <<>>
            /\ \A i \in DOMAIN Last(bc) : ~is_two_qubit(Last(bc)[i])
            /\ {Wire(g) : g \in Range(Last(bc))} \cap {Wire(g) : g \in Range(bt)} = {}
         THEN [bc EXCEPT ![Len(bc)] = Last(bc) \o bt]
         ELSE Append(bc, bt)

batch_circuit(seq) ==
    LET st == BatchLoop(seq, 1, BatchInit)
    IN  BatchLeftover(st.batched_circuit, st.batched_circuit_t)

(* BATCHING: compiler01.batch_circuit *)

BatchGate01(st, g) ==
    IF ~is_two_qubit(g)
    THEN LET reuse == Wire(g) \in st.used
             b     == IF reuse THEN Append(st.batched, st.tmp) ELSE st.batched
             t     == IF reuse THEN <<>> ELSE st.tmp
             u     == IF reuse THEN {} ELSE st.used
         IN  [batched |-> b, tmp |-> Append(t, g), used |-> u \cup {Wire(g)}]
    ELSE LET pending == st.tmp # <<>>
             b       == IF pending THEN Append(st.batched, st.tmp) ELSE st.batched
             u       == IF pending THEN {} ELSE st.used
         IN  [batched |-> Append(b, <<g>>), tmp |-> <<>>, used |-> u]

RECURSIVE BatchLoop01(_, _, _)
BatchLoop01(seq, i, st) ==
    IF i > Len(seq) THEN st ELSE BatchLoop01(seq, i + 1, BatchGate01(st, seq[i]))

batch_circuit01(seq) ==
    LET st == BatchLoop01(seq, 1, [batched |-> <<>>, tmp |-> <<>>, used |-> {}])
    IN  IF st.tmp # <<>> THEN Append(st.batched, st.tmp) ELSE st.batched

-----------------------------------------------------------------------------
(* MAPPING: compiler_v01 (same text in kemal.py) *)

\* positions[idx] raises IndexError (a negative idx counts from the end)
IndexRaises(positions, idx) == idx >= Len(positions) \/ idx < 0 - Len(positions)

\* the place of positions[idx] in the sequence that models the list
PyPos(positions, idx) == IF idx < 0 THEN Len(positions) + idx + 1 ELSE idx + 1

\* adjusted without the lower limit of its first range
AdjustedRaises_LowerOpen(idx) == ~(idx < 8)

is_single_qubit_op(circuit_column) == Len(circuit_column[1][3]) = 1

is_two_qubit_op(circuit_column) == Len(circuit_column[1][3]) = 2

\* adjusted whose middle range takes qubit 5 as well
adjusted_WideMiddle(pos, idx) ==
    IF 0 <= idx /\ idx < 3 THEN <<pos[1] + 1, pos[2]>>
    ELSE IF 3 <= idx /\ idx < 6 THEN <<pos[1], pos[2] - 1>>
    ELSE <<pos[1] - 1, pos[2]>>

\* idx outside 0..7 raises ValueError
AdjustedRaises(idx) == ~(0 <= idx /\ idx < 8)

adjusted(pos, idx) ==
    IF 0 <= idx /\ idx < 3 THEN <<pos[1] + 1, pos[2]>>
    ELSE IF 3 <= idx /\ idx < 5 THEN <<pos[1], pos[2] - 1>>
    ELSE <<pos[1] - 1, pos[2]>>

\* the candidate (qu1_pos[0], qu2_pos[1]) of select_int_point
IntPos(current_positions, qu1, qu2) ==
    <<adjusted(current_positions[PyPos(current_positions, qu1)], qu1)[1],
      adjusted(current_positions[PyPos(current_positions, qu2)], qu2)[2]>>


\* select_int_point raises ValueError: from current_positions[qu] (IndexError,
\* caught and raised again as ValueError), from adjusted, or from
\* interaction_positions.index(int_pos)
SelectIntPointRaises(current_positions, interaction_positions, qu1, qu2) ==
    \/ IndexRaises(current_positions, qu1)
    \/ AdjustedRaises(qu1)
    \/ IndexRaises(current_positions, qu2)
    \/ AdjustedRaises(qu2)
    \/ IntPos(current_positions, qu1, qu2) \notin Range(interaction_positions)

\* the list index (1-based here) of the candidate
select_int_point(current_positions, interaction_positions, qu1, qu2) ==
    LET int_pos == IntPos(current_positions, qu1, qu2)
    IN  CHOOSE i \in DOMAIN interaction_positions :
            /\ interaction_positions[i] = int_pos
            /\ \A j \in 1 .. (i - 1) : interaction_positions[j] # int_pos

\* what the memoized shortest_path(src, dst) can return with this cache:
\* the cached path, or on a miss any shortest path of the graph;
\* empty when an endpoint is no node of the graph (nx.NodeNotFound)
CachedPaths(cache, src, dst) ==
    IF <<src, dst>> \in DOMAIN cache THEN {cache[<<src, dst>>]}
    ELSE IF src \in GridNodes /\ dst \in GridNodes THEN ShortestPaths(src, dst)
    ELSE {}

\* the cache after shortest_path(src, dst) returned p
Memo(cache, src, dst, p) ==
    IF <<src, dst>> \in DOMAIN cache THEN cache ELSE (<<src, dst>> :> p) @@ cache

\* get_qubits_paths that starts both paths on the site of qu2
get_qubits_paths_SameStart(current_positions, qu1, qu2, sp1, sp2) ==
    <<<<current_positions[PyPos(current_positions, qu2)]>> \o sp1,
      <<current_positions[PyPos(current_positions, qu2)]>> \o sp2>>

\* the two paths of get_qubits_paths, given what shortest_path returned
get_qubits_paths(current_positions, qu1, qu2, sp1, sp2) ==
    <<<<current_positions[PyPos(current_positions, qu1)]>> \o sp1,
      <<current_positions[PyPos(current_positions, qu2)]>> \o sp2>>

\* ForwardSteps padding the shorter path with its first element
ForwardSteps_PadFirst(current_values, path1, path2, qu1, qu2) ==
    LET max_len == Max(Len(path1), Len(path2))
        padded1 == path1 \o Repeat(path1[1], max_len - Len(path1))
        padded2 == path2 \o Repeat(path2[1], max_len - Len(path2))
    IN  [i \in 1 .. max_len |->
            [[current_values EXCEPT ![PyPos(current_values, qu1)] = padded1[i]]
                             EXCEPT ![PyPos(current_values, qu2)] = padded2[i]]]

\* ForwardSteps that takes the last entry of the list along with qu1
ForwardSteps_Dragging(current_values, path1, path2, qu1, qu2) ==
    LET max_len == Max(Len(path1), Len(path2))
        padded1 == path1 \o Repeat(Last(path1), max_len - Len(path1))
        padded2 == path2 \o Repeat(Last(path2), max_len - Len(path2))
    IN  [i \in 1 .. max_len |->
            [[[current_values EXCEPT ![Len(current_values)] = padded1[i]]
                              EXCEPT ![PyPos(current_values, qu1)] = padded1[i]]
                              EXCEPT ![PyPos(current_values, qu2)] = padded2[i]]]

\* the forward snapshots of get_two_qubit_path (the values of the L fresh lists)
ForwardSteps(current_values, path1, path2, qu1, qu2) ==
    LET max_len == Max(Len(path1), Len(path2))
        padded1 == path1 \o Repeat(Last(path1), max_len - Len(path1))
        padded2 == path2 \o Repeat(Last(path2), max_len - Len(path2))
    IN  [i \in 1 .. max_len |->
            [[current_values EXCEPT ![PyPos(current_values, qu1)] = padded1[i]]
                             EXCEPT ![PyPos(current_values, qu2)] = padded2[i]]]

\* get_two_qubit_path returning the forward trip only
get_two_qubit_path_OneWay(forward_refs) == forward_refs

\* get_two_qubit_path whose return trip skips the repeated midpoint
get_two_qubit_path_Trimmed(forward_refs) == forward_refs \o Tail(Reverse(forward_refs))

\* forward + list(reversed(forward)): the same list objects, twice
get_two_qubit_path(forward_refs) == forward_refs \o Reverse(forward_refs)

\* get_two_qubit_gate_schedule looping over range(n - 1)
get_two_qubit_gate_schedule_Short(two_qubit_path, circuit_column) ==
    LET n == Len(two_qubit_path)
        Hit(i) == i < n /\ two_qubit_path[i] = two_qubit_path[i + 1]
    IN  [i \in 1 .. (n - 1) |->
            IF Hit(i) /\ \A j \in 1 .. (i - 1) : ~Hit(j) THEN circuit_column ELSE <<>>]

\* two_qubit_path is the list of snapshot values (== compares lists by value)
get_two_qubit_gate_schedule(two_qubit_path, circuit_column) ==
    LET n == Len(two_qubit_path)
        Hit(i) == i < n /\ two_qubit_path[i] = two_qubit_path[i + 1]
    IN  [i \in 1 .. n |->
            IF Hit(i) /\ \A j \in 1 .. (i - 1) : ~Hit(j) THEN circuit_column ELSE <<>>]

-----------------------------------------------------------------------------
(* Idle post-process of compiler_v01.main *)

\* has_gate: a gate of gates_schedule[t] on this ion
HasGate(batch, ion_idx) ==
    \E i \in DOMAIN batch :
        LET g == batch[i]
        IN  \/ g[1] \in {"RX", "RY"} /\ Wire(g) = <<ion_idx>>
            \/ g[1] = "MS" /\ ion_idx \in Operands(g)

\* idle_node built one column further
idle_node_Shifted(curr_pos) == <<curr_pos[1], curr_pos[2] + 1, "idle">>

\* idle_node built one row further
idle_node_Below(curr_pos) == <<curr_pos[1] + 1, curr_pos[2], "idle">>

idle_node(curr_pos) == <<curr_pos[1], curr_pos[2], "idle">>

\* The body of `for t in range(1, num_steps)` from Python's t = k - 1 on.
\* ph, hp, gs: positions_history (references), the heap it points into, and
\* gates_schedule; nh: the heap of new_positions.  copy.deepcopy keeps the
\* sharing of positions_history, so new_positions[t] is the object nh[ph[t]].
RECURSIVE IdleSteps(_, _, _, _, _, _, _, _)
IdleSteps(ph, hp, gs, ion_idx, k, run_length, prev_pos, nh) ==
    IF k > Len(ph) THEN nh
    ELSE LET curr_pos == hp[ph[k]][ion_idx + 1]
         IN  IF curr_pos # prev_pos \/ HasGate(gs[k], ion_idx)
             THEN IdleSteps(ph, hp, gs, ion_idx, k + 1, 0, curr_pos,
                            [nh EXCEPT ![ph[k]][ion_idx + 1] = curr_pos])
             ELSE IF run_length + 1 >= threshold
                  THEN IdleSteps(ph, hp, gs, ion_idx, k + 1, run_length + 1, prev_pos,
                                 [nh EXCEPT ![ph[k]][ion_idx + 1] = idle_node(curr_pos)])
                  ELSE IdleSteps(ph, hp, gs, ion_idx, k + 1, run_length + 1, prev_pos, nh)

\* `for ion_idx in range(num_ions)` from ion_idx on; num_ions is
\* len(positions_history[0]), which is the length of its copy new_positions[0]
RECURSIVE IdleIons(_, _, _, _, _)
IdleIons(ph, hp, gs, ion_idx, nh) ==
    IF ion_idx >= Len(nh[ph[1]]) THEN nh
    ELSE IdleIons(ph, hp, gs, ion_idx + 1,
                  IdleSteps(ph, hp, gs, ion_idx, 2, 0, hp[ph[1]][ion_idx + 1], nh))

\* new_positions after the post-process, one snapshot value per timestep
IdlePatched(ph, hp, gs) ==
    LET nh == IdleIons(ph, hp, gs, 0, hp)
    IN  [t \in DOMAIN ph |-> nh[ph[t]]]

-----------------------------------------------------------------------------
(* compiler01: helper funcs and routing *)

_is_single(c) == Len(c[1][3]) = 1

_adjust(pos, idx) ==
    IF 0 <= idx /\ idx < 3 THEN <<pos[1] + 1, pos[2]>>
    ELSE IF 3 <= idx /\ idx < 5 THEN <<pos[1], pos[2] - 1>>
    ELSE <<pos[1] - 1, pos[2]>>

\* the key of the fallback's min()
SumDist(cur, qu1, qu2, n) ==
    shortest_path_length(cur[PyPos(cur, qu1)], n)
        + shortest_path_length(cur[PyPos(cur, qu2)], n)

\* the exception _select_int raises before it selects, or "none":
\* cur[qu] raises IndexError, _adjust raises ValueError
SelectIntRaises(cur, qu1, qu2) ==
    IF IndexRaises(cur, qu1) THEN "IndexError"
    ELSE IF AdjustedRaises(qu1) THEN "ValueError"
    ELSE IF IndexRaises(cur, qu2) THEN "IndexError"
    ELSE IF AdjustedRaises(qu2) THEN "ValueError"
    ELSE "none"

_select_int(cur, qu1, qu2) ==
    LET a    == _adjust(cur[PyPos(cur, qu1)], qu1)
        b    == _adjust(cur[PyPos(cur, qu2)], qu2)
        cand == <<a[1], b[2]>>
    IN  IF cand \in Range(INTERACTION_POINTS) THEN cand
        ELSE LET i == CHOOSE i \in DOMAIN INTERACTION_POINTS :
                        /\ \A j \in DOMAIN INTERACTION_POINTS :
                              SumDist(cur, qu1, qu2, INTERACTION_POINTS[i])
                                  <= SumDist(cur, qu1, qu2, INTERACTION_POINTS[j])
                        /\ \A j \in 1 .. (i - 1) :
                              SumDist(cur, qu1, qu2, INTERACTION_POINTS[j])
                                  > SumDist(cur, qu1, qu2, INTERACTION_POINTS[i])
             IN  INTERACTION_POINTS[i]

\* p += [p[-1]] * (L - len(p)): the list after the in-place extension
PadInPlace(p, L) == p \o Repeat(Last(p), L - Len(p))

\* the lru_cache after _get_two_qubit_path padded the two lists it was handed:
\* shortest_path returns the cached list object itself, and += extends it
CacheAfterPadding(cache, key1, key2, L) ==
    [k \in DOMAIN cache |->
        IF k = key1 \/ k = key2 THEN PadInPlace(cache[k], L) ELSE cache[k]]

\* snaps + list(reversed(snaps)), from the padded lists
_get_two_qubit_path(cur, qu1, qu2, p1, p2) ==
    LET L     == Max(Len(p1), Len(p2))
        q1    == PadInPlace(p1, L)
        q2    == PadInPlace(p2, L)
        snaps == [i \in 1 .. L |->
                    [[cur EXCEPT ![PyPos(cur, qu1)] = q1[i]]
                          EXCEPT ![PyPos(cur, qu2)] = q2[i]]]
    IN  snaps \o Reverse(snaps)

_two_qubit_gate_schedule(path, column) ==
    LET Hit(i) == i < Len(path) /\ path[i] = path[i + 1]
    IN  [i \in 1 .. Len(path) |->
            IF Hit(i) /\ \A j \in 1 .. (i - 1) : ~Hit(j) THEN column ELSE <<>>]

-----------------------------------------------------------------------------
(* Inputs *)

\* the single rotation angle carried by the gates of the model
Angle == 0

\* the operations the circuit extractor emits in Spec
Gates == {<<"RX", Angle, <<0>>>>, <<"RY", Angle, <<2>>>>,
          <<"MS", Angle, <<1, 3>>>>, <<"MS", Angle, <<0, 2>>>>,
          <<"MS", Angle, <<6, 4>>>>}

\* the operations the circuit extractor emits in SpecLong
LongGates == {<<"RX", Angle, <<0>>>>, <<"RY", Angle, <<1>>>>,
              <<"MS", Angle, <<1, 3>>>>}

\* SpecDrift: operations on the qubits of the bottom row and the right
\* column, with the RZ that make_Z_rotation emits when use_Z is set
DriftGates == {<<"RY", Angle, <<5>>>>, <<"RZ", Angle, <<5>>>>,
               <<"MS", Angle, <<5, 6>>>>, <<"MS", Angle, <<6, 4>>>>}

\* SpecShapes: operations whose operand field is a wire label that is no
\* int, and two-qubit operations on a wire outside 0 .. 7
ShapedGates == {<<"RX", Angle, <<0>>>>, <<"RX", Angle, <<>>>>,
                <<"MS", Angle, <<1, 3>>>>, <<"MS", Angle, <<1, 8>>>>,
                <<"MS", Angle, <<-1, 3>>>>}

\* SpecCalls: the position lists, interaction point lists and qubit indices
\* the routing functions are called with
PositionLists == {<<<<0, 0>>, <<1, 1>>>>, initial_ion_pos}

InteractionLists == {<<<<0, 1>>>>, interaction_points}

QubitIndices == {-1, 0, 1, 2, 8}

\* SpecCalls: the snapshot paths the gate schedule functions are called with
Snapshots == {<<<<0, 0>>, <<1, 1>>>>, <<<<1, 0>>, <<1, 1>>>>, <<<<0, 1>>, <<0, 1>>>>}

SnapshotPaths == UNION {[1 .. n -> Snapshots] : n \in 1 .. MaxPathLen}

-----------------------------------------------------------------------------
(* State machine *)

NoResult == [status |-> "none", pos_hist |-> <<>>, gate_sched |-> <<>>]

Init ==
    /\ pc = "extract"
    /\ gate_seq = <<>>
    /\ batched_circuit = <<>>
    /\ col = 1
    /\ heap = <<initial_ion_pos>>
    /\ current_ion_pos = 1
    /\ positions_history = <<>>
    /\ gates_schedule = <<>>
    /\ origin = <<>>
    /\ path_cache = <<>>
    /\ new_positions = <<>>
    /\ raised = "none"
    /\ call = 0
    /\ batched = <<>>
    /\ col01 = 1
    /\ current = init_positions
    /\ pos_hist = <<>>
    /\ gate_sched = <<>>
    /\ origin01 = <<>>
    /\ path_cache01 = <<>>
    /\ raised01 = "none"
    /\ first_result = NoResult
    /\ called = "none"
    /\ arguments = <<>>
    /\ outcome = <<>>

\* qft.extract_gate_sequence: seq.append((name, angle, wire)) for the next operation
Extract(g, limit) ==
    /\ pc = "extract"
    /\ UNCHANGED fnvars
    /\ Len(gate_seq) < limit
    /\ gate_seq' = Append(gate_seq, g)
    /\ UNCHANGED <<pc, v01vars, c01vars>>

ExtractGate == \E g \in Gates : Extract(g, MaxGates)

ExtractLongGate == \E g \in LongGates : Extract(g, MaxLongGates)

ExtractShapedGate == \E g \in ShapedGates : Extract(g, MaxShapedGates)

ExtractDriftGate == \E g \in DriftGates : Extract(g, MaxDriftGates)

\* compiler_v01.main up to its loop: batched_circuit = batch_circuit(...)
MainBatch ==
    /\ pc = "extract"
    /\ UNCHANGED fnvars
    /\ pc' = "main"
    /\ batched_circuit' = batch_circuit(gate_seq)
    /\ col' = 1
    /\ UNCHANGED <<gate_seq, heap, current_ion_pos, positions_history, gates_schedule,
                   origin, path_cache, new_positions, raised, c01vars>>

\* one iteration of main's loop over a single-qubit column
MainSingleColumn ==
    /\ pc = "main"
    /\ UNCHANGED fnvars
    /\ col <= Len(batched_circuit)
    /\ is_single_qubit_op(batched_circuit[col])
    /\ gates_schedule' = Append(gates_schedule, batched_circuit[col])
    /\ positions_history' = Append(positions_history, current_ion_pos)
    /\ origin' = Append(origin, col)
    /\ col' = col + 1
    /\ UNCHANGED <<pc, gate_seq, batched_circuit, heap, current_ion_pos, path_cache,
                   new_positions, raised, c01vars>>

\* one iteration of main's loop over a two-qubit column
MainTwoQubitColumn ==
    /\ pc = "main"
    /\ UNCHANGED fnvars
    /\ col <= Len(batched_circuit)
    /\ ~is_single_qubit_op(batched_circuit[col])
    /\ is_two_qubit_op(batched_circuit[col])
    /\ LET circuit_column == batched_circuit[col]
           qu1  == circuit_column[1][3][1]
           qu2  == circuit_column[1][3][2]
           cur  == heap[current_ion_pos]
           src1 == adjusted(cur[PyPos(cur, qu1)], qu1)
           src2 == adjusted(cur[PyPos(cur, qu2)], qu2)
       IN  IF SelectIntPointRaises(cur, interaction_points, qu1, qu2)
           THEN /\ raised' = "ValueError"
                /\ pc' = "v01_end"
                /\ UNCHANGED <<col, heap, current_ion_pos, positions_history,
                               gates_schedule, origin, path_cache>>
           ELSE LET dst == interaction_points[
                               select_int_point(cur, interaction_points, qu1, qu2)]
                IN  IF CachedPaths(path_cache, src1, dst) = {}
                       \/ CachedPaths(path_cache, src2, dst) = {}
                    THEN /\ raised' = "NodeNotFound"
                         /\ pc' = "v01_end"
                         /\ UNCHANGED <<col, heap, current_ion_pos, positions_history,
                                        gates_schedule, origin, path_cache>>
                    ELSE \E sp1 \in CachedPaths(path_cache, src1, dst) :
                         \E sp2 \in CachedPaths(Memo(path_cache, src1, dst, sp1), src2, dst) :
                            LET paths   == get_qubits_paths(cur, qu1, qu2, sp1, sp2)
                                forward == ForwardSteps(cur, paths[1], paths[2], qu1, qu2)
                                refs    == [i \in 1 .. Len(forward) |-> Len(heap) + i]
                                two_qubit_path == get_two_qubit_path(refs)
                                heap2   == heap \o forward
                                values  == [i \in DOMAIN two_qubit_path |->
                                               heap2[two_qubit_path[i]]]
                            IN  /\ path_cache' = Memo(Memo(path_cache, src1, dst, sp1),
                                                      src2, dst, sp2)
                                /\ heap' = heap2
                                /\ gates_schedule' = gates_schedule \o
                                       get_two_qubit_gate_schedule(values, circuit_column)
                                /\ current_ion_pos' = Last(two_qubit_path)
                                /\ positions_history' = positions_history \o two_qubit_path
                                /\ origin' = origin \o Repeat(col, Len(two_qubit_path))
                                /\ col' = col + 1
                                /\ UNCHANGED <<pc, raised>>
    /\ UNCHANGED <<gate_seq, batched_circuit, new_positions, c01vars>>

\* one iteration of main's loop over a column whose first operation has an
\* operand field that is neither an int nor a tuple: no branch is taken
MainOtherColumn ==
    /\ pc = "main"
    /\ UNCHANGED fnvars
    /\ col <= Len(batched_circuit)
    /\ ~is_single_qubit_op(batched_circuit[col])
    /\ ~is_two_qubit_op(batched_circuit[col])
    /\ col' = col + 1
    /\ UNCHANGED <<pc, gate_seq, batched_circuit, heap, current_ion_pos,
                   positions_history, gates_schedule, origin, path_cache,
                   new_positions, raised, c01vars>>

\* the idle post-process after the loop; positions_history[0] of an empty
\* history raises IndexError
MainIdlePostProcess ==
    /\ pc = "main"
    /\ UNCHANGED fnvars
    /\ col > Len(batched_circuit)
    /\ pc' = "v01_end"
    /\ IF positions_history = <<>>
       THEN raised' = "IndexError" /\ UNCHANGED new_positions
       ELSE /\ new_positions' = IdlePatched(positions_history, heap, gates_schedule)
            /\ UNCHANGED raised
    /\ UNCHANGED <<gate_seq, batched_circuit, col, heap, current_ion_pos,
                   positions_history, gates_schedule, origin, path_cache, c01vars>>

\* compiler01.compile is called: the first call after main ended
CompileCall ==
    /\ pc = "v01_end"
    /\ UNCHANGED fnvars
    /\ pc' = "compile"
    /\ call' = 1
    /\ batched' = batch_circuit01(gate_seq)
    /\ col01' = 1
    /\ current' = init_positions
    /\ pos_hist' = <<>>
    /\ gate_sched' = <<>>
    /\ origin01' = <<>>
    /\ raised01' = "none"
    /\ UNCHANGED <<gate_seq, v01vars, path_cache01, first_result>>

\* one iteration of compile's loop over a single-qubit column
CompileSingleColumn ==
    /\ pc = "compile"
    /\ UNCHANGED fnvars
    /\ raised01 = "none"
    /\ col01 <= Len(batched)
    /\ _is_single(batched[col01])
    /\ pos_hist' = Append(pos_hist, current)
    /\ gate_sched' = Append(gate_sched, batched[col01])
    /\ origin01' = Append(origin01, col01)
    /\ col01' = col01 + 1
    /\ UNCHANGED <<pc, gate_seq, v01vars, call, batched, current, path_cache01,
                   raised01, first_result>>

\* one iteration of compile's loop over a two-qubit MS column
CompileTwoQubitColumn ==
    /\ pc = "compile"
    /\ UNCHANGED fnvars
    /\ raised01 = "none"
    /\ col01 <= Len(batched)
    /\ ~_is_single(batched[col01])
    /\ LET column == batched[col01]
           q1   == column[1][3][1]
           q2   == column[1][3][2]
       IN  IF Len(column[1][3]) # 2
           THEN \* q1, q2 = col[0][2] finds one value to unpack in 'a'
                /\ raised01' = "ValueError"
                /\ UNCHANGED <<col01, current, pos_hist, gate_sched, origin01,
                               path_cache01>>
           ELSE IF SelectIntRaises(current, q1, q2) # "none"
           THEN /\ raised01' = SelectIntRaises(current, q1, q2)
                /\ UNCHANGED <<col01, current, pos_hist, gate_sched, origin01,
                               path_cache01>>
           ELSE LET tgt  == _select_int(current, q1, q2)
                    src1 == _adjust(current[PyPos(current, q1)], q1)
                    src2 == _adjust(current[PyPos(current, q2)], q2)
                IN  IF CachedPaths(path_cache01, src1, tgt) = {}
                    THEN /\ raised01' = "NodeNotFound"
                         /\ UNCHANGED <<col01, current, pos_hist, gate_sched, origin01,
                                        path_cache01>>
                    ELSE \E p1 \in CachedPaths(path_cache01, src1, tgt) :
                         LET cache1 == Memo(path_cache01, src1, tgt, p1)
                         IN  IF CachedPaths(cache1, src2, tgt) = {}
                             THEN /\ raised01' = "NodeNotFound"
                                  /\ path_cache01' = cache1
                                  /\ UNCHANGED <<col01, current, pos_hist, gate_sched,
                                                 origin01>>
                             ELSE \E p2 \in CachedPaths(cache1, src2, tgt) :
                                  LET cache2 == Memo(cache1, src2, tgt, p2)
                                      path   == _get_two_qubit_path(current, q1, q2, p1, p2)
                                      sched  == _two_qubit_gate_schedule(path, column)
                                  IN  /\ path_cache01' =
                                            CacheAfterPadding(cache2, <<src1, tgt>>,
                                                <<src2, tgt>>, Max(Len(p1), Len(p2)))
                                      /\ pos_hist' = pos_hist \o path
                                      /\ gate_sched' = gate_sched \o sched
                                      /\ origin01' = origin01 \o Repeat(col01, Len(path))
                                      /\ current' = Last(path)
                                      /\ col01' = col01 + 1
                                      /\ UNCHANGED raised01
    /\ UNCHANGED <<pc, gate_seq, v01vars, call, batched, first_result>>

\* how the running call ended: what it returned, or that it raised
CallResult ==
    IF raised01 = "none"
    THEN [status |-> "returned", pos_hist |-> pos_hist, gate_sched |-> gate_sched]
    ELSE [status |-> raised01, pos_hist |-> <<>>, gate_sched |-> <<>>]

\* the first call ends (returns or raises) and compile is called again with the
\* same arguments in the same process: the module-level cache is kept
CompileAgain ==
    /\ pc = "compile"
    /\ UNCHANGED fnvars
    /\ call = 1
    /\ raised01 # "none" \/ col01 > Len(batched)
    /\ first_result' = CallResult
    /\ call' = 2
    /\ batched' = batch_circuit01(gate_seq)
    /\ col01' = 1
    /\ current' = init_positions
    /\ pos_hist' = <<>>
    /\ gate_sched' = <<>>
    /\ origin01' = <<>>
    /\ raised01' = "none"
    /\ UNCHANGED <<pc, gate_seq, v01vars, path_cache01>>

\* the second call ends
CompileEnd ==
    /\ pc = "compile"
    /\ UNCHANGED fnvars
    /\ call = 2
    /\ raised01 # "none" \/ col01 > Len(batched)
    /\ pc' = "done"
    /\ UNCHANGED <<gate_seq, v01vars, c01vars>>

Next ==
    \/ ExtractGate
    \/ MainBatch
    \/ MainSingleColumn
    \/ MainTwoQubitColumn
    \/ MainIdlePostProcess
    \/ CompileCall
    \/ CompileSingleColumn
    \/ CompileTwoQubitColumn
    \/ CompileAgain
    \/ CompileEnd

Spec == Init /\ [][Next]_vars

\* compiler_v01.main alone, on longer gate sequences
NextLong ==
    \/ ExtractLongGate
    \/ MainBatch
    \/ MainSingleColumn
    \/ MainTwoQubitColumn
    \/ MainIdlePostProcess

SpecLong == Init /\ [][NextLong]_vars

\* both pipelines on repeated gates between the qubits of the bottom row and
\* the right column
NextDrift ==
    \/ ExtractDriftGate
    \/ MainBatch
    \/ MainSingleColumn
    \/ MainTwoQubitColumn
    \/ MainIdlePostProcess
    \/ CompileCall
    \/ CompileSingleColumn
    \/ CompileTwoQubitColumn
    \/ CompileAgain
    \/ CompileEnd

SpecDrift == Init /\ [][NextDrift]_vars

\* both pipelines on gate sequences with unclassifiable and out-of-range
\* operand fields
NextShapes ==
    \/ ExtractShapedGate
    \/ MainBatch
    \/ MainSingleColumn
    \/ MainTwoQubitColumn
    \/ MainOtherColumn
    \/ MainIdlePostProcess
    \/ CompileCall
    \/ CompileSingleColumn
    \/ CompileTwoQubitColumn
    \/ CompileAgain
    \/ CompileEnd

SpecShapes == Init /\ [][NextShapes]_vars

(* Unit calls of the routing functions, in a fresh process (empty lru_cache) *)

\* the body of main's two-qubit branch on given arguments:
\* get_two_qubit_path(current_ion_pos, interaction_points, qu1, qu2), then
\* get_two_qubit_gate_schedule(two_qubit_path, circuit_column)
CallGetTwoQubitPath ==
    \E cur \in PositionLists, ips \in InteractionLists, qu1, qu2 \in QubitIndices :
        LET circuit_column == <<<<"MS", Angle, <<qu1, qu2>>>>>>
        IN  /\ called' = "get_two_qubit_path"
            /\ arguments' = [current_ion_pos |-> cur, interaction_points |-> ips,
                             circuit_column |-> circuit_column]
            /\ IF SelectIntPointRaises(cur, ips, qu1, qu2)
               THEN outcome' = [status |-> "ValueError"]
               ELSE LET dst  == ips[select_int_point(cur, ips, qu1, qu2)]
                        src1 == adjusted(cur[PyPos(cur, qu1)], qu1)
                        src2 == adjusted(cur[PyPos(cur, qu2)], qu2)
                    IN  IF CachedPaths(<<>>, src1, dst) = {}
                           \/ CachedPaths(<<>>, src2, dst) = {}
                        THEN outcome' = [status |-> "NodeNotFound"]
                        ELSE \E sp1 \in CachedPaths(<<>>, src1, dst) :
                             \E sp2 \in CachedPaths(Memo(<<>>, src1, dst, sp1), src2, dst) :
                                LET paths   == get_qubits_paths(cur, qu1, qu2, sp1, sp2)
                                    forward == ForwardSteps(cur, paths[1], paths[2],
                                                            qu1, qu2)
                                    refs    == [i \in 1 .. Len(forward) |-> i]
                                    two_qubit_path ==
                                        [i \in 1 .. 2 * Len(forward) |->
                                            forward[get_two_qubit_path(refs)[i]]]
                                IN  outcome' =
                                        [status |-> "returned",
                                         positions_history |-> two_qubit_path,
                                         gates_schedule |->
                                             get_two_qubit_gate_schedule(two_qubit_path,
                                                                         circuit_column)]
            /\ UNCHANGED <<pc, gate_seq, v01vars, c01vars>>

\* get_two_qubit_gate_schedule(two_qubit_path, circuit_column)
CallGetTwoQubitGateSchedule ==
    \E path \in SnapshotPaths :
        LET circuit_column == <<<<"MS", Angle, <<0, 1>>>>>>
        IN  /\ called' = "get_two_qubit_gate_schedule"
            /\ arguments' = [path |-> path, circuit_column |-> circuit_column]
            /\ outcome' = [status |-> "returned",
                           schedule |-> get_two_qubit_gate_schedule(path, circuit_column)]
            /\ UNCHANGED <<pc, gate_seq, v01vars, c01vars>>

\* compiler01._two_qubit_gate_schedule(path, column)
CallTwoQubitGateSchedule01 ==
    \E path \in SnapshotPaths :
        LET column == <<<<"MS", Angle, <<0, 1>>>>>>
        IN  /\ called' = "_two_qubit_gate_schedule"
            /\ arguments' = [path |-> path, circuit_column |-> column]
            /\ outcome' = [status |-> "returned",
                           schedule |-> _two_qubit_gate_schedule(path, column)]
            /\ UNCHANGED <<pc, gate_seq, v01vars, c01vars>>

NextCalls ==
    \/ CallGetTwoQubitPath
    \/ CallGetTwoQubitGateSchedule
    \/ CallTwoQubitGateSchedule01

SpecCalls == Init /\ [][NextCalls]_vars

-----------------------------------------------------------------------------
(* Views of the state used by the properties *)

\* the snapshots of positions_history by value, before the idle post-process
Positions == [t \in DOMAIN positions_history |-> heap[positions_history[t]]]

\* main's loop has ended without an exception and the timeline is final
MainReturned == pc \notin {"extract", "main"} /\ raised = "none"

\* the second compile() call has returned
SecondReturned == pc = "done" /\ raised01 = "none"

\* the columns main's loop (compile's loop) has processed
DoneCols == 1 .. (col - 1)

DoneCols01 == 1 .. (col01 - 1)

\* the first timestep emitted by the column that emitted timestep t
ExpStart(orig, t) ==
    CHOOSE s \in DOMAIN orig :
        orig[s] = orig[t] /\ \A u \in 1 .. (s - 1) : orig[u] # orig[t]

\* the last timestep emitted by the column that emitted timestep t
ExpEnd(orig, t) ==
    CHOOSE s \in DOMAIN orig :
        orig[s] = orig[t] /\ \A u \in (s + 1) .. Len(orig) : orig[u] # orig[t]

\* the running positions just before timestep s was emitted: the snapshot of
\* the timestep before it, or the initial positions
BeforeStep(s) == IF s = 1 THEN initial_ion_pos ELSE Positions[s - 1]

BeforeStep01(s) == IF s = 1 THEN init_positions ELSE pos_hist[s - 1]

\* an entry of new_positions that carries the idle tag
IsIdle(site) == Len(site) = 3

\* some operation of the batch references qubit k
Targets(batch, k) == \E i \in DOMAIN batch : k \in Operands(batch[i])

-----------------------------------------------------------------------------
(* Properties *)

\* C1: positions_history and gates_schedule have the same length after every
\* processed batch and in the final timeline, before and after the idle
\* annotation, in compiler_v01.main and in both compile() calls of compiler01.
C1_SameLength ==
    /\ Len(positions_history) = Len(gates_schedule)
    /\ MainReturned => Len(new_positions) = Len(gates_schedule)
    /\ Len(pos_hist) = Len(gate_sched)
    /\ Len(first_result.pos_hist) = Len(first_result.gate_sched)

\* a final timeline of main and of compile() holding a single-qubit timestep
\* and a two-qubit expansion
C1_Witness ==
    /\ MainReturned
    /\ SecondReturned
    /\ first_result.status = "returned"
    /\ \E t \in DOMAIN gates_schedule : gates_schedule[t] = <<>>
    /\ \E t \in DOMAIN gates_schedule :
          gates_schedule[t] # <<>> /\ ~is_two_qubit(gates_schedule[t][1])
    /\ Len(new_positions) > threshold
    /\ Len(pos_hist) > threshold

\* C2: in compiler_v01 / kemal the last snapshot of every two-qubit expansion
\* equals, for all operands, the snapshot just before the expansion, and the
\* running positions always equal the initial positions.
C2_RoundTrip ==
    /\ heap[current_ion_pos] = initial_ion_pos
    /\ \A t \in DOMAIN positions_history :
          (is_two_qubit_op(batched_circuit[origin[t]]) /\ t = ExpEnd(origin, t))
              => Positions[t] = BeforeStep(ExpStart(origin, t))

\* two expansions have been emitted, in which the two operands left their sites
C2_Witness ==
    /\ pc = "main"
    /\ Cardinality({c \in DoneCols : is_two_qubit_op(batched_circuit[c])}) >= 2
    /\ \A c \in DoneCols : is_two_qubit_op(batched_circuit[c]) =>
          \E t \in DOMAIN origin :
             origin[t] = c /\ Positions[t] # initial_ion_pos

\* the gates of the two-qubit columns of a batch list, in order
RECURSIVE TwoQubitHeads(_)
TwoQubitHeads(bc) ==
    IF bc = <<>> THEN <<>>
    ELSE (IF is_two_qubit(Head(bc)[1]) THEN <<Head(bc)[1]>> ELSE <<>>)
             \o TwoQubitHeads(Tail(bc))

\* the expansion of column c holds exactly one non-empty batch, the column
ExpansionHasOneGate(bc, orig, gs, c) ==
    /\ Len(bc[c]) = 1
    /\ Cardinality({t \in DOMAIN gs : orig[t] = c /\ gs[t] # <<>>}) = 1
    /\ \A t \in DOMAIN gs : (orig[t] = c /\ gs[t] # <<>>) => gs[t] = <<bc[c][1]>>

\* C3: every two-operand operation of the input is a column of its own, and
\* the gate batches of its expansion are all empty but one, which is the
\* singleton of that operation (compiler_v01 and compiler01).
C3_OneGatePerExpansion ==
    /\ pc # "extract" =>
          TwoQubitHeads(batched_circuit) = SelectSeq(gate_seq, is_two_qubit)
    /\ \A c \in DoneCols :
          is_two_qubit_op(batched_circuit[c]) =>
              ExpansionHasOneGate(batched_circuit, origin, gates_schedule, c)
    /\ call > 0 => TwoQubitHeads(batched) = SelectSeq(gate_seq, is_two_qubit)
    /\ \A c \in DoneCols01 :
          ~_is_single(batched[c]) =>
              ExpansionHasOneGate(batched, origin01, gate_sched, c)

\* both pipelines have expanded two two-qubit gates
C3_Witness ==
    /\ SecondReturned
    /\ MainReturned
    /\ Len(SelectSeq(gate_seq, is_two_qubit)) >= 2
    /\ Len(gate_seq) > Len(SelectSeq(gate_seq, is_two_qubit))
    /\ Len(gates_schedule) > Len(gate_seq)
    /\ Len(gate_sched) > Len(gate_seq)

\* the two operands of gate g are together at snapshot snap, on site
Colocated(snap, g, site) == snap[g[3][1] + 1] = site /\ snap[g[3][2] + 1] = site

\* C4: at every timestep whose batch holds a two-operand operation, the two
\* operands are on one site, the rendezvous selected for that operation from
\* the positions before its expansion, which is a declared interaction site
\* (compiler_v01 and compiler01).
C4_GateAtRendezvous ==
    /\ \A t \in DOMAIN gates_schedule : \A i \in DOMAIN gates_schedule[t] :
          LET g == gates_schedule[t][i]
          IN  is_two_qubit(g) =>
                 LET before == BeforeStep(ExpStart(origin, t))
                     rdv    == interaction_points[
                                   select_int_point(before, interaction_points,
                                                    g[3][1], g[3][2])]
                 IN  /\ Colocated(Positions[t], g, rdv)
                     /\ rdv \in Range(interaction_points)
    /\ \A t \in DOMAIN gate_sched : \A i \in DOMAIN gate_sched[t] :
          LET g == gate_sched[t][i]
          IN  is_two_qubit(g) =>
                 LET rdv == _select_int(BeforeStep01(ExpStart(origin01, t)),
                                        g[3][1], g[3][2])
                 IN  /\ Colocated(pos_hist[t], g, rdv)
                     /\ rdv \in Range(INTERACTION_POINTS)

\* both pipelines hold a two-qubit gate timestep, and compile() one whose
\* rendezvous came from the fallback
C4_Witness ==
    /\ \E t \in DOMAIN gates_schedule :
          gates_schedule[t] # <<>> /\ is_two_qubit(gates_schedule[t][1])
    /\ \E t \in DOMAIN gate_sched :
          /\ gate_sched[t] # <<>>
          /\ is_two_qubit(gate_sched[t][1])
          /\ IntPos(BeforeStep01(ExpStart(origin01, t)),
                    gate_sched[t][1][3][1], gate_sched[t][1][3][2])
                 \notin Range(INTERACTION_POINTS)

\* C5: the batches of the final gates_schedule, concatenated in timestep
\* order, are the input operation sequence (compiler_v01.main and every
\* compile() call that returned).
C5_ScheduleIsInput ==
    /\ MainReturned => Flatten(gates_schedule) = gate_seq
    /\ first_result.status = "returned" => Flatten(first_result.gate_sched) = gate_seq
    /\ SecondReturned => Flatten(gate_sched) = gate_seq

\* final timelines of an input mixing a shared single-qubit batch, a repeated
\* operation and a two-qubit gate
C5_Witness ==
    /\ MainReturned
    /\ SecondReturned
    /\ first_result.status = "returned"
    /\ \E t \in DOMAIN gates_schedule : Len(gates_schedule[t]) >= 2
    /\ \E t \in DOMAIN gates_schedule :
          gates_schedule[t] # <<>> /\ is_two_qubit(gates_schedule[t][1])
    /\ \E i, j \in DOMAIN gate_seq : i < j /\ gate_seq[i] = gate_seq[j]

\* the single-qubit operations of a batch are on pairwise distinct qubits
DistinctSingles(b) ==
    \A i, j \in DOMAIN b :
        (i < j /\ ~is_two_qubit(b[i]) /\ ~is_two_qubit(b[j])) => Wire(b[i]) # Wire(b[j])

\* C6: in every batch batch_circuit returns, the single-operand operations
\* target pairwise distinct operands (compiler_v01 and compiler01).
C6_DistinctOperands ==
    /\ \A c \in DOMAIN batched_circuit : DistinctSingles(batched_circuit[c])
    /\ \A c \in DOMAIN batched : DistinctSingles(batched[c])

\* batch_circuit returned a batch of two operations, and two adjacent
\* single-qubit batches split by the reuse of an operand
C6_Witness ==
    /\ pc = "main"
    /\ \E c \in DOMAIN batched_circuit : Len(batched_circuit[c]) >= 2
    /\ \E c \in DOMAIN batched_circuit :
          /\ c < Len(batched_circuit)
          /\ is_single_qubit_op(batched_circuit[c])
          /\ is_single_qubit_op(batched_circuit[c + 1])

\* operand k neither moved nor was targeted at timestep t (t >= 2)
Quiet(k, t) ==
    /\ Positions[t][k + 1] = Positions[t - 1][k + 1]
    /\ ~Targets(gates_schedule[t], k)

\* C7: in the final annotated positions_history, an idle tag on operand k at
\* a timestep means that at this timestep and the threshold - 1 before it the
\* operand stayed on its site of the timestep before and no operation of
\* gates_schedule targeted it; the tag appears at no earlier timestep.
C7_TagOnlyAfterThreshold ==
    MainReturned =>
        \A t \in DOMAIN new_positions : \A k \in Ions :
            IsIdle(new_positions[t][k + 1]) =>
                /\ t - threshold >= 1
                /\ \A s \in (t - threshold + 1) .. t : Quiet(k, s)

\* C8: in the final annotated positions_history, operand k carries no idle tag
\* at a timestep where its site differs from the timestep before or where an
\* operation of gates_schedule targets it.
C8_NoTagOnMoveOrGate ==
    MainReturned =>
        \A t \in DOMAIN new_positions : \A k \in Ions :
            (\/ Targets(gates_schedule[t], k)
             \/ t >= 2 /\ Positions[t][k + 1] # Positions[t - 1][k + 1])
                => ~IsIdle(new_positions[t][k + 1])

\* C9: with threshold 6, an operand that stays put and gate-free for 7
\* consecutive timesteps carries the idle tag in the final output at the 6th
\* and the 7th of them, and a gate on it at the next timestep leaves that
\* timestep untagged.
C9_TaggedFromSixthStep ==
    MainReturned =>
        \A k \in Ions : \A t \in 2 .. (Len(new_positions) - threshold) :
            (\A s \in t .. (t + threshold) : Quiet(k, s)) =>
                /\ IsIdle(new_positions[t + threshold - 1][k + 1])
                /\ IsIdle(new_positions[t + threshold][k + 1])
                /\ (/\ t + threshold + 1 <= Len(new_positions)
                    /\ Targets(gates_schedule[t + threshold + 1], k))
                       => ~IsIdle(new_positions[t + threshold + 1][k + 1])

\* C10: two compile() calls with the same arguments in one process end the
\* same way: the same exception, or the same (positions_history,
\* gates_schedule).
C10_SameResultTwice ==
    pc = "done" => CallResult = first_result

\* the unit call is the scenario: 2 operands at (0,0) and (1,1), the one
\* interaction site (0,1), one two-operand operation on operands (0, 1)
ScenarioCalled ==
    /\ called = "get_two_qubit_path"
    /\ arguments.current_ion_pos = <<<<0, 0>>, <<1, 1>>>>
    /\ arguments.interaction_points = <<<<0, 1>>>>
    /\ arguments.circuit_column = <<<<"MS", Angle, <<0, 1>>>>>>

\* C11: routing the scenario (operands at (0,0) and (1,1), interaction site
\* (0,1), one operation on operands (0, 1)) returns a timeline of even length
\* 2L, L >= 1, whose only non-empty batch is the input operation, at the
\* midpoint, and whose final snapshot is the initial one.
C11_ScenarioCompiles ==
    ScenarioCalled =>
        /\ outcome.status = "returned"
        /\ LET ph == outcome.positions_history
               gs == outcome.gates_schedule
               L  == Len(ph) \div 2
           IN  /\ Len(ph) = 2 * L
               /\ L >= 1
               /\ Len(gs) = Len(ph)
               /\ \A t \in DOMAIN gs :
                     gs[t] = IF t = L THEN arguments.circuit_column ELSE <<>>
               /\ ph[Len(ph)] = arguments.current_ion_pos

\* new_positions as the idle post-process leaves it when every timestep of
\* positions_history is a list object of its own
IdlePatchedOnCopies ==
    IdlePatched([t \in DOMAIN positions_history |-> t], Positions, gates_schedule)

\* C12: every timestep of positions_history is a list object of its own, so
\* a write of the idle post-process to new_positions[t][k] changes timestep
\* t only: the annotated history is the one obtained on independent copies.
C12_IndependentSnapshots ==
    /\ \A s, t \in DOMAIN positions_history :
          s # t => positions_history[s] # positions_history[t]
    /\ MainReturned => new_positions = IdlePatchedOnCopies

\* the (row, column) coordinate of a plain or idle-tagged entry
Coordinate(site) == <<site[1], site[2]>>

\* C13: the idle post-process only adds or removes the idle tag: it leaves
\* gates_schedule as it is, keeps the number of timesteps and of operands
\* per snapshot, and every annotated entry has the (row, column) coordinate
\* of the entry before annotation.
C13_AnnotatorOnlyTags ==
    [][(pc = "main" /\ pc' = "v01_end" /\ raised' = "none") =>
          /\ gates_schedule' = gates_schedule
          /\ Len(new_positions') = Len(positions_history)
          /\ \A t \in DOMAIN positions_history :
                /\ Len(new_positions'[t]) = Len(Positions[t])
                /\ \A k \in Ions :
                      Coordinate(new_positions'[t][k + 1]) = Positions[t][k + 1]]_vars

\* the post-process has run on a timeline with an expansion and has tagged
\* some entries and left others plain
C13_Witness ==
    /\ MainReturned
    /\ \E t \in DOMAIN new_positions : gates_schedule[t] = <<>>
    /\ \E t \in DOMAIN new_positions : \E k \in Ions : IsIdle(new_positions[t][k + 1])
    /\ \E t \in DOMAIN new_positions : \E k \in Ions : ~IsIdle(new_positions[t][k + 1])

\* every entry of the snapshot is a node of the trap graph, one per operand
OnTrap(snapshot) ==
    /\ Len(snapshot) = num_ions
    /\ \A k \in Ions : snapshot[k + 1] \in TrapNodes

C15_RoundTrip01 ==
    /\ \A t \in DOMAIN pos_hist :
          (~_is_single(batched[origin01[t]]) /\ t = ExpEnd(origin01, t)) =>
              LET before == BeforeStep01(ExpStart(origin01, t))
              IN  /\ pos_hist[ExpStart(origin01, t)] = before
                  /\ pos_hist[t] = before
    /\ call > 0 => current = init_positions

\* the main loop (the same text in kemal.py and compiler_v01.py) has built its
\* timeline: it ended without an exception of its own
LoopBuiltTimeline == pc \notin {"extract", "main"} /\ raised \in {"none", "IndexError"}

\* C16: whenever the kemal main loop builds a timeline, the first compile()
\* call on the same operation sequence and initial positions returns that
\* positions_history and that gates_schedule.
C16_CompileIsKemal ==
    (LoopBuiltTimeline /\ first_result.status # "none") =>
        first_result = [status |-> "returned", pos_hist |-> Positions,
                        gate_sched |-> gates_schedule]

\* C17: for every operation sequence compiler01.batch_circuit, which has no
\* end-of-input merge, returns the same ordered list of batches as the
\* batch_circuit of kemal.py / compiler_v01.py, which has one.
C17_SameBatches ==
    /\ batch_circuit01(gate_seq) = batch_circuit(gate_seq)
    /\ call > 0 => batched = batched_circuit

\* both batchers have run on an input that ends with leftover single-qubit
\* operations behind a batch of single-qubit operations only, the case the
\* merge step looks at
C17_Witness ==
    /\ call > 0
    /\ Len(batched_circuit) >= 2
    /\ is_single_qubit_op(batched_circuit[Len(batched_circuit)])
    /\ is_single_qubit_op(batched_circuit[Len(batched_circuit) - 1])
    /\ \E c \in DOMAIN batched_circuit : is_two_qubit_op(batched_circuit[c])

\* a two-qubit operation with an operand index outside 0 .. 7
OutOfRange(g) == is_two_qubit(g) /\ \E q \in Operands(g) : q \notin 0 .. 7

\* C18: a two-operand operation with an operand index outside 0 .. 7 is
\* never expanded, and a run whose input holds one ends with an exception in
\* compiler_v01.main and in every compile() call, without a timeline.
C18_OutOfRangeFails ==
    /\ \A c \in DoneCols : ~OutOfRange(batched_circuit[c][1])
    /\ \A c \in DoneCols01 : ~OutOfRange(batched[c][1])
    /\ (\E i \in DOMAIN gate_seq : OutOfRange(gate_seq[i])) =>
          /\ pc \notin {"extract", "main"} => (raised # "none" /\ new_positions = <<>>)
          /\ first_result.status # "returned"
          /\ (pc = "compile" /\ col01 > Len(batched)) => raised01 # "none"
          /\ pc = "done" => raised01 # "none"

\* main and both compile() calls have ended on an input whose out-of-range
\* operation comes behind columns that were emitted
C18_Witness ==
    /\ pc = "done"
    /\ \E i \in DOMAIN gate_seq : OutOfRange(gate_seq[i])
    /\ raised = "ValueError"
    /\ positions_history # <<>>
    /\ first_result.status \in {"ValueError", "IndexError"}
    /\ raised01 \in {"ValueError", "IndexError"}
    /\ pos_hist # <<>>

\* no index i in [0, len(path) - 2] has path[i] == path[i + 1]
NoRendezvous(path) == \A i \in 1 .. (Len(path) - 1) : path[i] # path[i + 1]

\* C19: a gate schedule built for a snapshot path without two equal
\* consecutive snapshots is not returned with the gate missing: the call
\* ends with an InternalConsistencyError (get_two_qubit_gate_schedule and
\* compiler01._two_qubit_gate_schedule).
C19_MissingGateRaises ==
    (/\ called \in {"get_two_qubit_gate_schedule", "_two_qubit_gate_schedule"}
     /\ NoRendezvous(arguments.path)) =>
        outcome.status = "InternalConsistencyError"

\* an operation whose operand field is neither an int nor a pair
Unclassifiable(g) == Len(g[3]) \notin {1, 2}

\* C20: an operation whose operand field is neither an int nor a pair is
\* never placed in a batch, never dropped from a timeline main completes,
\* and makes compilation end with an UnsupportedOperationError.
C20_UnsupportedShapeFails ==
    /\ \A c \in DOMAIN batched_circuit : \A i \in DOMAIN batched_circuit[c] :
          ~Unclassifiable(batched_circuit[c][i])
    /\ MainReturned => Flatten(gates_schedule) = gate_seq
    /\ ((\E i \in DOMAIN gate_seq : Unclassifiable(gate_seq[i]))
           /\ pc \notin {"extract", "main"}) => raised = "UnsupportedOperationError"

\* the sum the claim minimizes: distances from the two adjusted sites
SumDistAdjusted(cur, qu1, qu2, n) ==
    shortest_path_length(_adjust(cur[PyPos(cur, qu1)], qu1), n)
        + shortest_path_length(_adjust(cur[PyPos(cur, qu2)], qu2), n)

\* the site the claim selects: the candidate when it is declared, else the
\* earliest declared site with the least SumDistAdjusted
SelectedFromAdjusted(cur, qu1, qu2) ==
    LET cand == <<_adjust(cur[PyPos(cur, qu1)], qu1)[1],
                  _adjust(cur[PyPos(cur, qu2)], qu2)[2]>>
    IN  IF cand \in Range(INTERACTION_POINTS) THEN cand
        ELSE INTERACTION_POINTS[
                 CHOOSE i \in DOMAIN INTERACTION_POINTS :
                    /\ \A j \in DOMAIN INTERACTION_POINTS :
                          SumDistAdjusted(cur, qu1, qu2, INTERACTION_POINTS[i])
                              <= SumDistAdjusted(cur, qu1, qu2, INTERACTION_POINTS[j])
                    /\ \A j \in 1 .. (i - 1) :
                          SumDistAdjusted(cur, qu1, qu2, INTERACTION_POINTS[j])
                              > SumDistAdjusted(cur, qu1, qu2, INTERACTION_POINTS[i])]

\* C21: the rendezvous of every two-qubit gate compile() has routed is the
\* geometric candidate when that is a declared interaction site, and else the
\* earliest declared site minimizing the sum of the shortest path lengths
\* from the two adjusted sites.
C21_FallbackFromAdjusted ==
    \A t \in DOMAIN gate_sched : \A i \in DOMAIN gate_sched[t] :
        LET g == gate_sched[t][i]
        IN  is_two_qubit(g) =>
               Colocated(pos_hist[t], g,
                         SelectedFromAdjusted(BeforeStep01(ExpStart(origin01, t)),
                                              g[3][1], g[3][2]))

\* C22: in the final annotated positions_history, an operation of
\* gates_schedule[t] that references operand k, a single-operand operation
\* of any name on k or a two-operand operation on a pair holding k, leaves
\* k untagged at t and restarts its run: k carries no tag at the
\* threshold - 1 timesteps that follow either.
C22_AnyGateResets ==
    MainReturned =>
        \A t \in 2 .. Len(new_positions) : \A k \in Ions :
            Targets(gates_schedule[t], k) =>
                \A s \in t .. (t + threshold - 1) :
                    s <= Len(new_positions) => ~IsIdle(new_positions[s][k + 1])

\* the timesteps emitted by column c
ExpSteps(orig, c) == {t \in DOMAIN orig : orig[t] = c}

\* The expansion of the two-qubit column c, emitted from the running
\* positions before, has the shape of the claim: 2L snapshots, L the longer
\* of the two paths (the original site, then a shortest path from the
\* adjusted site to the rendezvous rdv), the shorter one resting on rdv,
\* the mirror image behind, and the column at the first index whose
\* snapshot equals the next one, index L - 1 of the expansion.
ExpansionShape(orig, snaps, gs, c, column, before, rdv) ==
    LET qu1   == column[1][3][1]
        qu2   == column[1][3][2]
        adj1  == adjusted(before[qu1 + 1], qu1)
        adj2  == adjusted(before[qu2 + 1], qu2)
        len1  == shortest_path_length(adj1, rdv) + 2
        len2  == shortest_path_length(adj2, rdv) + 2
        L     == Max(len1, len2)
        first == CHOOSE t \in ExpSteps(orig, c) : \A u \in ExpSteps(orig, c) : t <= u
        Walk(q, len, adj) ==
            /\ snaps[first][q + 1] = before[q + 1]
            /\ [i \in 1 .. (len - 1) |-> snaps[first + i][q + 1]]
                   \in ShortestPaths(adj, rdv)
            /\ \A i \in len .. (L - 1) : snaps[first + i][q + 1] = rdv
    IN  /\ ExpSteps(orig, c) = first .. (first + 2 * L - 1)
        /\ Walk(qu1, len1, adj1)
        /\ Walk(qu2, len2, adj2)
        /\ \A i \in 0 .. (L - 1) : snaps[first + 2 * L - 1 - i] = snaps[first + i]
        /\ \A i \in 0 .. (2 * L - 1) :
              gs[first + i] = IF i = L - 1 THEN column ELSE <<>>
        /\ \A i \in 0 .. (L - 2) : snaps[first + i] # snaps[first + i + 1]
        /\ snaps[first + L - 1] = snaps[first + L]

\* C23: every two-operand expansion, of compiler_v01 / kemal and of
\* compiler01, consists of 2L snapshots, L the longer of the two paths, each
\* the operand's original site followed by the shortest path from its
\* adjusted site to the rendezvous, with the gate batch at index L - 1, the
\* first index where a snapshot equals the next one.
C23_ExpansionShape ==
    /\ \A c \in DoneCols :
          is_two_qubit_op(batched_circuit[c]) =>
             LET before == BeforeStep(CHOOSE t \in ExpSteps(origin, c) :
                                         \A u \in ExpSteps(origin, c) : t <= u)
                 g      == batched_circuit[c][1]
             IN  ExpansionShape(origin, Positions, gates_schedule, c,
                                batched_circuit[c], before,
                                interaction_points[
                                    select_int_point(before, interaction_points,
                                                     g[3][1], g[3][2])])
    /\ \A c \in DoneCols01 :
          ~_is_single(batched[c]) =>
             LET before == BeforeStep01(CHOOSE t \in ExpSteps(origin01, c) :
                                           \A u \in ExpSteps(origin01, c) : t <= u)
                 g      == batched[c][1]
             IN  ExpansionShape(origin01, pos_hist, gate_sched, c, batched[c],
                                before, _select_int(before, g[3][1], g[3][2]))

\* a batch that holds a two-operand operation holds nothing else
TwoQubitAlone(b) == (\E i \in DOMAIN b : is_two_qubit(b[i])) => Len(b) = 1

\* C24: every batch of the batchers' output that contains a two-operand
\* operation is the singleton of that operation (compiler_v01 / kemal and
\* compiler01).
C24_TwoQubitSingleton ==
    /\ \A c \in DOMAIN batched_circuit : TwoQubitAlone(batched_circuit[c])
    /\ \A c \in DOMAIN batched : TwoQubitAlone(batched[c])

\* the batchers have returned a two-qubit column between a pending
\* single-qubit group, closed before it, and a single-qubit operation after it
C24_Witness ==
    /\ call > 0
    /\ \E c \in DOMAIN batched_circuit :
          /\ 1 < c /\ c < Len(batched_circuit)
          /\ is_two_qubit_op(batched_circuit[c])
          /\ is_single_qubit_op(batched_circuit[c - 1])
          /\ is_single_qubit_op(batched_circuit[c + 1])
    /\ batched = batched_circuit

\* the wires of the operations of a batch
BatchWires(b) == {Wire(b[i]) : i \in DOMAIN b}

\* a batch of single-operand operations only
SingleOnly(b) == \A i \in DOMAIN b : ~is_two_qubit(b[i])

\* adjacent single-operand batches: the later one starts on a wire of the
\* earlier one
Maximal(bs) ==
    \A c \in DOMAIN bs :
        (c < Len(bs) /\ SingleOnly(bs[c]) /\ SingleOnly(bs[c + 1])) =>
            Wire(bs[c + 1][1]) \in BatchWires(bs[c])

\* the three conditions of the end-of-input merge of compiler_v01 hold on the
\* state the loop leaves behind
MergeTaken(seq) ==
    LET st == BatchLoop(seq, 1, BatchInit)
    IN  /\ st.batched_circuit_t # <<>>
        /\ st.batched_circuit # <<>>
        /\ SingleOnly(Last(st.batched_circuit))
        /\ BatchWires(Last(st.batched_circuit)) \cap BatchWires(st.batched_circuit_t) = {}

\* C25: single-operand batches are maximal: of two adjacent single-operand
\* batches of the batcher's output the later one starts with an operation on
\* an operand the earlier one already uses, and the end-of-input merge into a
\* disjoint single-operand batch never takes place.
C25_MaximalBatches ==
    /\ Maximal(batch_circuit(gate_seq))
    /\ ~MergeTaken(gate_seq)
    /\ call > 0 => Maximal(batched_circuit)

\* the batcher has returned two adjacent single-operand batches, the earlier
\* one holding operations on two wires
C25_Witness ==
    /\ call > 0
    /\ \E c \in DOMAIN batched_circuit :
          /\ c < Len(batched_circuit)
          /\ SingleOnly(batched_circuit[c])
          /\ SingleOnly(batched_circuit[c + 1])
          /\ Len(batched_circuit[c]) = 2

\* the snapshots new .. of the timeline snaps leave every entry of the running
\* state cur alone, but those of the two operands of the column
OthersStay(snaps, new, cur, column) ==
    LET qu1 == column[1][3][1]
        qu2 == column[1][3][2]
    IN  \A t \in new .. Len(snaps) :
        \A j \in DOMAIN cur \ {PyPos(cur, qu1), PyPos(cur, qu2)} :
            snaps[t][j] = cur[j]

\* one loop iteration of main: a two-qubit column moves its two operands
\* only, a single-qubit column appends the running state once and keeps it
FrameStep ==
    (pc = "main" /\ col' = col + 1) =>
        /\ is_single_qubit_op(batched_circuit[col]) =>
              /\ Len(positions_history') = Len(positions_history) + 1
              /\ Last(Positions') = heap[current_ion_pos]
              /\ heap'[current_ion_pos'] = heap[current_ion_pos]
              /\ \A t \in DOMAIN Positions : Positions'[t] = Positions[t]
        /\ (~is_single_qubit_op(batched_circuit[col])
                /\ is_two_qubit_op(batched_circuit[col])) =>
              OthersStay(Positions', Len(positions_history) + 1,
                         heap[current_ion_pos], batched_circuit[col])

\* the same for one loop iteration of compiler01.compile
FrameStep01 ==
    (pc = "compile" /\ col01' = col01 + 1) =>
        /\ _is_single(batched[col01]) =>
              /\ pos_hist' = Append(pos_hist, current)
              /\ current' = current
        /\ ~_is_single(batched[col01]) =>
              /\ SubSeq(pos_hist', 1, Len(pos_hist)) = pos_hist
              /\ OthersStay(pos_hist', Len(pos_hist) + 1, current, batched[col01])

\* C26: in every snapshot of a two-operand expansion each operand the gate
\* does not name has the site it had in the running state just before the
\* expansion, and a single-operand batch appends exactly one timestep, whose
\* snapshot equals the running state, which it leaves as it is.
C26_FrameEffect == [][FrameStep /\ FrameStep01]_vars

\* both loops have run over a single-qubit column and a two-qubit column
C26_Witness ==
    /\ pc = "compile"
    /\ col > Len(batched_circuit) /\ raised = "none"
    /\ col01 > Len(batched) /\ raised01 = "none"
    /\ \E c \in DOMAIN batched : ~_is_single(batched[c])
    /\ \E c \in DOMAIN batched : _is_single(batched[c])
    /\ \E t \in DOMAIN pos_hist : pos_hist[t] # init_positions
    /\ \E t \in DOMAIN Positions : Positions[t] # initial_ion_pos

\* trap.neighbors(a): the grid neighbours of a grid node and its idle leaf,
\* the grid node of an idle leaf
TrapNeighbors(a) ==
    IF Len(a) = 3 THEN {<<a[1], a[2]>>}
    ELSE GridNeighbors(a) \cup ({<<a[1], a[2], "idle">>} \cap IdleNodes)

\* every operand of every snapshot rests or steps to a neighbour of the site
\* it has in the snapshot before
FollowsEdges(snaps) ==
    \A t \in DOMAIN snaps : t < Len(snaps) =>
        \A k \in DOMAIN snaps[t] :
            \/ snaps[t + 1][k] = snaps[t][k]
            \/ snaps[t + 1][k] \in TrapNeighbors(snaps[t][k])

\* C27: movement follows topology edges: for every operand and every pair
\* of consecutive timesteps of a timeline, the movement data of
\* compiler_v01 / kemal, the timeline of compiler01 and the annotated
\* timeline main hands on, the later site is the earlier site or a graph
\* neighbour of it.
C27_FollowsEdges ==
    /\ FollowsEdges(Positions)
    /\ FollowsEdges(pos_hist)
    /\ (pc \notin {"extract", "main"} /\ raised = "none") => FollowsEdges(new_positions)

\* every path held in the cache is a shortest path between its endpoints,
\* both included, without a repeated site
HoldsShortestPaths(cache) ==
    \A k \in DOMAIN cache : cache[k] \in ShortestPaths(k[1], k[2])

\* C28: the memoized shortest_path(src, dst), of compiler_v01 / kemal and of
\* compiler01, returns a shortest path from src to dst, both endpoints
\* included and no site repeated, however many two-operand gates were routed
\* before: no path held in the cache is ever altered.
C28_CacheReadOnly ==
    /\ HoldsShortestPaths(path_cache)
    /\ HoldsShortestPaths(path_cache01)

\* no batch of the list is empty
NoEmptyBatch(bs) == \A c \in DOMAIN bs : Len(bs[c]) >= 1

\* C29: batch_circuit, of compiler_v01 / kemal and of compiler01, never emits
\* an empty batch: every batch of its output holds at least one operation, so
\* the first operation the loops classify a batch by exists.
C29_NoEmptyBatch ==
    /\ NoEmptyBatch(batch_circuit(gate_seq))
    /\ NoEmptyBatch(batch_circuit01(gate_seq))
    /\ NoEmptyBatch(batched_circuit)
    /\ NoEmptyBatch(batched)

\* the batchers have returned the batches of an input with two two-qubit
\* gates in a row, where the second gate finds no pending group to close,
\* and a single-qubit operation behind them
C29_Witness ==
    /\ call > 0
    /\ batched = batched_circuit
    /\ \E c \in DOMAIN batched_circuit :
          /\ c + 2 <= Len(batched_circuit)
          /\ is_two_qubit_op(batched_circuit[c])
          /\ is_two_qubit_op(batched_circuit[c + 1])
          /\ is_single_qubit_op(batched_circuit[c + 2])

MaxPairGates == 2

\* the MS gates on every ordered pair of distinct qubits
PairGates == {<<"MS", Angle, <<a, b>>>> : a, b \in Ions} \ {<<"MS", Angle, <<a, a>>>> : a \in Ions}

ExtractPairGate == \E g \in PairGates : Extract(g, MaxPairGates)

\* compiler_v01.main on sequences of two-qubit gates between any two qubits
NextPairs ==
    \/ ExtractPairGate
    \/ MainBatch
    \/ MainTwoQubitColumn
    \/ MainIdlePostProcess

SpecPairs == Init /\ [][NextPairs]_vars

\* C30: with the default initial positions and interaction points the
\* candidate (row of a's adjusted site, column of b's adjusted site) is an
\* interaction point for every ordered pair of distinct qubits a, b in
\* 0 .. 7; main's running positions are the initial ones before every gate,
\* and select_int_point raises on no sequence of two-qubit gates on distinct
\* qubits.
C30_SelectionNeverFails ==
    /\ \A a, b \in Ions :
          a # b => IntPos(initial_ion_pos, a, b) \in Range(interaction_points)
    /\ (\A i \in DOMAIN gate_seq :
           /\ is_two_qubit(gate_seq[i])
           /\ Operands(gate_seq[i]) \subseteq Ions
           /\ gate_seq[i][3][1] # gate_seq[i][3][2]) =>
          /\ raised # "ValueError"
          /\ pc = "main" => heap[current_ion_pos] = initial_ion_pos

\* main has routed two different gates that share a qubit, one of them
\* between the top row and the bottom row, without an exception
C30_Witness ==
    /\ pc = "v01_end" /\ raised = "none"
    /\ Len(gate_seq) = 2
    /\ gate_seq[1] # gate_seq[2]
    /\ gate_seq[1][3][1] = gate_seq[2][3][2]
    /\ gate_seq[1][3][1] \in 0 .. 2 /\ gate_seq[1][3][2] \in 5 .. 7
    /\ Len(positions_history) > 0

\* in every snapshot of the timeline snaps two operands share a site only
\* when they are the two operands of the two-qubit column that emitted the
\* snapshot and the site is the rendezvous select_int_point chose for them
NoSharedSite(snaps) ==
    \A t \in DOMAIN snaps :
    \A j, k \in DOMAIN snaps[t] :
        (j # k /\ snaps[t][j] = snaps[t][k]) =>
            LET column == batched_circuit[origin[t]]
                qu1    == column[1][3][1]
                qu2    == column[1][3][2]
            IN  /\ is_two_qubit_op(column)
                /\ {j, k} = {PyPos(initial_ion_pos, qu1), PyPos(initial_ion_pos, qu2)}
                /\ snaps[t][j] = interaction_points[
                       select_int_point(initial_ion_pos, interaction_points, qu1, qu2)]

\* C31: with the default initial positions and interaction points, at every
\* timestep of the timeline of compiler_v01, the movement data and the
\* annotated timeline, no two operands occupy the same site, except the two
\* operands of the gate being expanded, and those only at their rendezvous
\* site.
C31_NoSharedSite ==
    /\ NoSharedSite(Positions)
    /\ (pc \notin {"extract", "main"} /\ raised = "none") => NoSharedSite(new_positions)

\* main has returned a timeline in which the two operands of a gate share
\* their rendezvous site while a third operand rests on a neighbour of it
C31_Witness ==
    /\ pc = "v01_end" /\ raised = "none"
    /\ \E t \in DOMAIN new_positions :
       \E j, k, l \in DOMAIN new_positions[t] :
          /\ j # k
          /\ new_positions[t][j] = new_positions[t][k]
          /\ Coordinate(new_positions[t][l]) \in GridNeighbors(new_positions[t][j])

====
